---- MODULE Spec2Model ----
(***************************************************************************)
(* A model of the memory allocator of src/allocator.c.                     *)
(*                                                                         *)
(* Memory is modelled as the set of block headers it holds: mem maps the   *)
(* address of a header to the fields of struct mem_block (allocator.h      *)
(* 39-58) followed by the two link words that struct free_block            *)
(* (allocator.h 60-64) overlays on the first 16 payload bytes.  The name   *)
(* field is not modelled: no statement of the code reads it back, and      *)
(* labels are taken to fit its 32 bytes.                                   *)
(* size_t and pointers are unsigned words of SizeMod values; arithmetic on *)
(* them wraps.  NULL is 0.                                                 *)
(***************************************************************************)
EXTENDS Integers, FiniteSets, Sequences, TLC

VARIABLES
    mem,         \* header address -> fields of the block that lives there
    regions,     \* base address of an mmap'ed region -> its mapped length
    free_head,   \* allocator.c:26
    free_tail,   \* allocator.c:27
    blist_head,  \* allocator.c:23
    blist_tail,  \* allocator.c:24
    lock,        \* allocator.c:19: 0 when free, else the owning thread
    scribble,    \* getenv("ALLOCATOR_SCRIBBLE") != NULL (allocator.c:371)
    aborted,     \* the process was killed (SIGSEGV / abort())
    live,        \* caller: pointer returned and not yet passed to free_impl
                 \*   -> the number of bytes that was asked for
    dead,        \* caller: payload pointers it has passed to free_impl
    ndouble,     \* caller: how often it passed one of those a second time
    last,        \* the last API call made and what it returned
    pc,          \* per thread: position inside malloc_impl / free_impl
    targ         \* per thread: the call's argument and local variables

vars == <<mem, regions, free_head, free_tail, blist_head, blist_tail, lock,
          scribble, aborted, live, dead, ndouble, last, pc, targ>>

heapVars == <<mem, regions, free_head, free_tail, blist_head, blist_tail>>

----------------------------------------------------------------------------
(* Program constants *)

NULL == 0
ALIGNMENT == 16
HeaderSize == 64
MinSize == 80
PageSize == 4096
SizeMod == 65536
OffRegion == 0
OffSize == 40
OffNextBlock == 48
OffPrevBlock == 56
OffNextFree == 64
OffPrevFree == 72
WordBytes == 8
ScribbleByte == 170
ZeroByte == 0

(* Bounds of the model *)

NumPages == 3
NumThreads == 2
MaxDoubleFree == 1

(* Inputs.  Sizes: 0 and 4032 give blocks of 64 and 4096 bytes (multiples  *)
(* of 16, 4096 filling its page), 3 gives an odd, unaligned 67.  CallocArgs: *)
(* a product that fits (4032) and one that wraps to 0.                      *)
Threads == 1..NumThreads
Slots == {PageSize * k : k \in 1..NumPages}
Sizes == {0, 3, 4032}
CallocArgs == {<<63, 64>>, <<256, 256>>}
ReallocSizes == {0, 3}
ConcSizes == {3, 4032}
FillBytes == {17}
LibcPtrs == {61440}

Min(a, b) == IF a < b THEN a ELSE b
Max(a, b) == IF a > b THEN a ELSE b
Wrap(x) == x % SizeMod

ZeroBlock == [region |-> 0, size |-> 0, next_block |-> 0, prev_block |-> 0,
              next_free |-> 0, prev_free |-> 0]

NoArgs == [size |-> 0, block |-> 0, ret |-> 0]

NoCall == [op |-> "none", a |-> 0, b |-> 0, ptr |-> 0, ret |-> 0, leak |-> FALSE]

----------------------------------------------------------------------------
(* Helpers of allocator.c *)

align(orig_size, alignment) ==
    LET new_size == (orig_size \div alignment) * alignment
    IN  IF orig_size % alignment # 0 THEN Wrap(new_size + alignment) ELSE new_size

real_size(size) == size - (size % 2)

is_free(m, block) == m[block].size % 2 = 1

set_free(m, block) ==
    [m EXCEPT ![block].size = IF @ % 2 = 1 THEN @ ELSE @ + 1]

set_used(m, block) ==
    [m EXCEPT ![block].size = real_size(@)]

(* add_free: the new heap as [mem, free_head, free_tail].  In the first     *)
(* branch the block's next_free / prev_free words are not written.         *)
add_free(m, fh, ft, block) ==
    LET m1 == set_free(m, block)
    IN  IF fh = NULL /\ ft = NULL
        THEN [mem |-> m1, free_head |-> block, free_tail |-> block]
        ELSE LET m2 == [m1 EXCEPT ![block].next_free = fh]
                 m3 == [m2 EXCEPT ![fh].prev_free = block]
             IN  [mem |-> m3, free_head |-> block, free_tail |-> ft]

(* A store to / load from one field of the header at address a.  A store   *)
(* to an address that held no header yet makes one there (split_block      *)
(* writes its new header into what was payload).                           *)
Store(m, a, f, v) ==
    IF a \in DOMAIN m THEN [m EXCEPT ![a][f] = v]
    ELSE (a :> [ZeroBlock EXCEPT ![f] = v]) @@ m

Load(m, a, f) == IF a \in DOMAIN m THEN m[a][f] ELSE 0

(* split_block: [mem, ret], statement by statement.  region of the new      *)
(* block is never assigned (the assignment follows the return).            *)
split_block(m, block, size) ==
    IF block = NULL \/ size < MinSize THEN [mem |-> m, ret |-> NULL]
    ELSE
    LET block_size == real_size(m[block].size)
        new_block == Wrap(block + block_size - size + SizeMod)
    IN  IF block_size < MinSize THEN [mem |-> m, ret |-> NULL]
        ELSE IF ~is_free(m, block) THEN [mem |-> m, ret |-> NULL]
        ELSE IF m[block].next_block = NULL THEN [mem |-> m, ret |-> NULL]
        ELSE
        LET m1 == Store(m, new_block, "next_block", m[block].next_block)
            m2 == Store(m1, block, "next_block", new_block)
            m3 == Store(m2, new_block, "prev_block", block)
            m4 == Store(m3, Load(m3, new_block, "next_block"), "prev_block", new_block)
            new_size == Wrap(Load(m4, block, "size") - size + SizeMod)
            m5 == Store(m4, block, "size", new_size)
            m6 == Store(m5, new_block, "size", block_size)
            new_block_new_size == Wrap(Load(m6, new_block, "size") - new_size + SizeMod)
            m7 == Store(m6, new_block, "size", Wrap(new_block_new_size + 2))
        IN  [mem |-> m7, ret |-> new_block]

reuse(size) == NULL

----------------------------------------------------------------------------
(* The operating system and the C library *)

PageRound(len) == ((len + PageSize - 1) \div PageSize) * PageSize

Pages(base, len) == {base + PageSize * i : i \in 0..((PageRound(len) \div PageSize) - 1)}

MappedPages(regs) == UNION {Pages(b, regs[b]) : b \in DOMAIN regs}

(* mmap(NULL, len, ...): MAP_FAILED (0 here) or the base of a fresh,        *)
(* zero-filled, page-aligned range that overlaps no existing mapping.       *)
MmapResults(regs, len) ==
    {0} \cup {b \in Slots : /\ len > 0
                            /\ Pages(b, len) \subseteq Slots
                            /\ Pages(b, len) \cap MappedPages(regs) = {}}

(* One 8-byte field whose first k bytes are overwritten with byte.  The     *)
(* model's words are 2 bytes wide, little-endian.                           *)
ClobberWord(v, k, byte) ==
    IF k <= 0 THEN v
    ELSE IF k = 1 THEN (v \div 256) * 256 + byte
    ELSE byte * 257

Cover(start, count, fieldAddr) ==
    IF start <= fieldAddr THEN Min(WordBytes, Max(0, start + count - fieldAddr)) ELSE 0

(* memset(start, byte, count) as seen by the headers and link words.       *)
Fill(m, start, count, byte) ==
    [a \in DOMAIN m |->
        [region     |-> ClobberWord(m[a].region, Cover(start, count, a + OffRegion), byte),
         size       |-> ClobberWord(m[a].size, Cover(start, count, a + OffSize), byte),
         next_block |-> ClobberWord(m[a].next_block, Cover(start, count, a + OffNextBlock), byte),
         prev_block |-> ClobberWord(m[a].prev_block, Cover(start, count, a + OffPrevBlock), byte),
         next_free  |-> ClobberWord(m[a].next_free, Cover(start, count, a + OffNextFree), byte),
         prev_free  |-> ClobberWord(m[a].prev_free, Cover(start, count, a + OffPrevFree), byte)]]

(* The write faults when it touches a page that is not mapped. *)
FillFaults(regs, start, count) ==
    /\ count > 0
    /\ \E q \in (start \div PageSize)..((start + count - 1) \div PageSize) :
          (q * PageSize) \notin MappedPages(regs)

----------------------------------------------------------------------------
(* The API, one call as one step *)

(* The body of malloc_impl between lock and return, given mmap's result r:  *)
(* [mem, regions, ret, fault].  fault: the scribble memset ran into an      *)
(* unmapped page.                                                            *)
malloc_core(m, regs, size, r, scr) ==
    LET actual_size == Wrap(size + HeaderSize)
        aligned_size == align(actual_size, ALIGNMENT)
        reused_block == reuse(aligned_size)
    IN  IF reused_block # NULL
        THEN [mem |-> set_used(m, reused_block), regions |-> regs,
              ret |-> reused_block + HeaderSize, fault |-> FALSE]
        ELSE IF r = 0
        THEN [mem |-> m, regions |-> regs, ret |-> NULL, fault |-> FALSE]
        ELSE
        LET regs1 == (r :> PageRound(actual_size)) @@ regs
            m0 == (r :> ZeroBlock) @@ m
            m1 == Store(m0, r, "region", r)
            m2 == set_free(m1, r)
            sp == split_block(m2, r, Wrap(real_size(m2[r].size) - aligned_size + SizeMod))
            m3 == set_used(sp.mem, r)
            m4 == Store(m3, r, "size", actual_size)
            flt == scr /\ FillFaults(regs1, r + HeaderSize, actual_size)
            m5 == IF scr /\ ~flt THEN Fill(m4, r + HeaderSize, actual_size, ScribbleByte)
                  ELSE m4
        IN  [mem |-> m5, regions |-> regs1, ret |-> r + HeaderSize, fault |-> flt]

malloc_impl ==
    /\ ~aborted
    /\ \E size \in Sizes :
       \E r \in MmapResults(regions, Wrap(size + HeaderSize)) :
          LET c == malloc_core(mem, regions, size, r, scribble)
          IN  /\ mem' = c.mem
              /\ regions' = c.regions
              /\ aborted' = c.fault
              /\ live' = IF c.ret # NULL /\ ~c.fault THEN (c.ret :> size) @@ live ELSE live
              /\ last' = [NoCall EXCEPT !.op = "malloc", !.a = size,
                                        !.ret = IF c.fault THEN NULL ELSE c.ret]
    /\ UNCHANGED <<free_head, free_tail, blist_head, blist_tail, lock, scribble,
                   dead, ndouble, pc, targ>>

Without(f, x) == [y \in DOMAIN f \ {x} |-> f[y]]

free_impl ==
    /\ ~aborted
    /\ \E ptr \in {NULL} \cup DOMAIN live \cup dead :
          /\ ptr \in dead => ndouble < MaxDoubleFree
          /\ ndouble' = IF ptr \in dead THEN ndouble + 1 ELSE ndouble
          /\ IF ptr = NULL
             THEN UNCHANGED <<mem, free_head, free_tail>>
             ELSE LET block == ptr - HeaderSize
                      h == add_free(mem, free_head, free_tail, block)
                  IN  /\ mem' = h.mem
                      /\ free_head' = h.free_head
                      /\ free_tail' = h.free_tail
          /\ live' = Without(live, ptr)
          /\ dead' = IF ptr = NULL THEN dead ELSE dead \cup {ptr}
          /\ last' = [NoCall EXCEPT !.op = "free", !.ptr = ptr]
    /\ UNCHANGED <<regions, blist_head, blist_tail, lock, scribble, aborted, pc, targ>>

calloc_impl ==
    /\ ~aborted
    /\ \E args \in CallocArgs :
       LET nmemb == args[1]
           size == args[2]
           n == Wrap(nmemb * size)
       IN  \E r \in MmapResults(regions, Wrap(n + HeaderSize)) :
           LET c == malloc_core(mem, regions, n, r, scribble)
               ptr == c.ret
               flt == \/ c.fault
                      \/ (ptr = NULL /\ n > 0)
                      \/ (ptr # NULL /\ FillFaults(c.regions, ptr, n))
           IN  /\ mem' = IF flt THEN c.mem ELSE Fill(c.mem, ptr, n, ZeroByte)
               /\ regions' = c.regions
               /\ aborted' = flt
               /\ live' = IF ptr # NULL /\ ~flt THEN (ptr :> n) @@ live ELSE live
               /\ last' = [NoCall EXCEPT !.op = "calloc", !.a = nmemb, !.b = size,
                                         !.ret = IF flt THEN NULL ELSE ptr]
    /\ UNCHANGED <<free_head, free_tail, blist_head, blist_tail, lock, scribble,
                   dead, ndouble, pc, targ>>

(* realloc_impl.  new_ptr is the C library's malloc(size): NULL or memory   *)
(* outside this allocator (LibcPtrs).  The final free(ptr) hands the C        *)
(* library a pointer it never returned: it aborts, or returns having done   *)
(* nothing to this allocator's state (libcAborts chooses).                  *)
realloc_call(size, ptr, ret) ==
    [NoCall EXCEPT !.op = "realloc", !.a = size, !.ptr = ptr, !.ret = ret]

realloc_impl ==
    /\ ~aborted
    /\ \E ptr \in {NULL} \cup DOMAIN live, size \in ReallocSizes :
       \/ \* new_ptr == NULL: return malloc_impl(size, name)
          \E r \in MmapResults(regions, Wrap(size + HeaderSize)) :
            LET c == malloc_core(mem, regions, size, r, scribble)
                ok == c.ret # NULL /\ ~c.fault
            IN  /\ mem' = c.mem
                /\ regions' = c.regions
                /\ aborted' = c.fault
                /\ live' = IF ok THEN (c.ret :> size) @@ live ELSE live
                /\ last' = realloc_call(size, ptr, IF c.fault THEN NULL ELSE c.ret)
       \/ \* new_ptr != NULL, ptr == NULL: return new_ptr
          /\ ptr = NULL
          /\ \E new_ptr \in LibcPtrs : last' = realloc_call(size, ptr, new_ptr)
          /\ UNCHANGED <<mem, regions, aborted, live>>
       \/ \* new_ptr != NULL, size == 0: free(new_ptr); return NULL
          /\ ptr # NULL /\ size = 0
          /\ last' = realloc_call(size, ptr, NULL)
          /\ UNCHANGED <<mem, regions, aborted, live>>
       \/ \* memcpy(new_ptr, ptr, size); free(ptr); return new_ptr
          /\ ptr # NULL /\ size # 0
          /\ \E new_ptr \in LibcPtrs, libcAborts \in BOOLEAN :
                /\ aborted' = (FillFaults(regions, ptr, size) \/ libcAborts)
                /\ last' = realloc_call(size, ptr, IF aborted' THEN NULL ELSE new_ptr)
          /\ UNCHANGED <<mem, regions, live>>
    /\ UNCHANGED <<free_head, free_tail, blist_head, blist_tail, lock, scribble,
                   dead, ndouble, pc, targ>>

leak_check ==
    /\ ~aborted
    /\ last' = [NoCall EXCEPT !.op = "leak_check", !.leak = TRUE]
    /\ UNCHANGED <<heapVars, lock, scribble, aborted, live, dead, ndouble, pc, targ>>

(* The caller fills the bytes it asked for (memset(p, byte, n)). *)
write_payload ==
    /\ ~aborted
    /\ \E p \in DOMAIN live, byte \in FillBytes :
          /\ live[p] > 0
          /\ ~FillFaults(regions, p, live[p])
          /\ mem' = Fill(mem, p, live[p], byte)
          /\ last' = [NoCall EXCEPT !.op = "write", !.ptr = p]
    /\ UNCHANGED <<regions, free_head, free_tail, blist_head, blist_tail, lock,
                   scribble, aborted, live, dead, ndouble, pc, targ>>

Init ==
    /\ mem = <<>>
    /\ regions = <<>>
    /\ free_head = NULL
    /\ free_tail = NULL
    /\ blist_head = NULL
    /\ blist_tail = NULL
    /\ lock = 0
    /\ scribble \in BOOLEAN
    /\ aborted = FALSE
    /\ live = <<>>
    /\ dead = {}
    /\ ndouble = 0
    /\ last = NoCall
    /\ pc = [t \in Threads |-> "idle"]
    /\ targ = [t \in Threads |-> NoArgs]

Next ==
    \/ malloc_impl
    \/ free_impl
    \/ calloc_impl
    \/ realloc_impl
    \/ leak_check
    \/ write_payload

Spec == Init /\ [][Next]_vars

----------------------------------------------------------------------------
(* Concurrent callers: malloc_impl and free_impl statement by statement.    *)
(* pthread_mutex_lock blocks while another thread owns the lock.            *)

Goto(t, label) == pc' = [pc EXCEPT ![t] = label]

c_malloc_call(t) ==
    /\ ~aborted /\ pc[t] = "idle"
    /\ \E size \in ConcSizes :
          targ' = [targ EXCEPT ![t] = [NoArgs EXCEPT !.size = size]]
    /\ Goto(t, "m_lock")
    /\ UNCHANGED <<heapVars, lock, scribble, aborted, live, dead, ndouble, last>>

(* allocator.c:328 *)
c_malloc_lock(t) ==
    /\ ~aborted /\ pc[t] = "m_lock"
    /\ lock = 0
    /\ lock' = t
    /\ Goto(t, "m_body")
    /\ UNCHANGED <<heapVars, scribble, aborted, live, dead, ndouble, last, targ>>

(* allocator.c:330-367: everything between lock and unlock.  It reads and  *)
(* writes only the header of the block it has just mapped.                  *)
c_malloc_body(t) ==
    /\ ~aborted /\ pc[t] = "m_body"
    /\ \E r \in MmapResults(regions, Wrap(targ[t].size + HeaderSize)) :
          LET c == malloc_core(mem, regions, targ[t].size, r, FALSE)
          IN  /\ mem' = c.mem
              /\ regions' = c.regions
              /\ targ' = [targ EXCEPT ![t].block = r, ![t].ret = c.ret]
              /\ Goto(t, IF c.ret = NULL THEN "m_unlock_failed" ELSE "m_unlock")
    /\ UNCHANGED <<free_head, free_tail, blist_head, blist_tail, lock, scribble,
                   aborted, live, dead, ndouble, last>>

(* The mmap failure path without its pthread_mutex_unlock. *)
c_malloc_return_failed_locked(t) ==
    /\ ~aborted /\ pc[t] = "m_unlock_failed"
    /\ targ' = [targ EXCEPT ![t] = NoArgs]
    /\ Goto(t, "idle")
    /\ UNCHANGED <<heapVars, lock, scribble, aborted, live, dead, ndouble, last>>

(* allocator.c:350-352 *)
c_malloc_unlock_failed(t) ==
    /\ ~aborted /\ pc[t] = "m_unlock_failed"
    /\ lock' = 0
    /\ targ' = [targ EXCEPT ![t] = NoArgs]
    /\ Goto(t, "idle")
    /\ UNCHANGED <<heapVars, scribble, aborted, live, dead, ndouble, last>>

(* allocator.c:336-337 (a reused block: unlock and return) and 368 *)
c_malloc_unlock(t) ==
    /\ ~aborted /\ pc[t] = "m_unlock"
    /\ lock' = 0
    /\ IF reuse(align(Wrap(targ[t].size + HeaderSize), ALIGNMENT)) # NULL
       THEN /\ live' = (targ[t].ret :> targ[t].size) @@ live
            /\ targ' = [targ EXCEPT ![t] = NoArgs]
            /\ Goto(t, "idle")
       ELSE /\ Goto(t, "m_scribble")
            /\ UNCHANGED <<live, targ>>
    /\ UNCHANGED <<heapVars, scribble, aborted, dead, ndouble, last>>

(* allocator.c:371-376 *)
c_malloc_return(t) ==
    /\ ~aborted /\ pc[t] = "m_scribble"
    /\ LET actual_size == Wrap(targ[t].size + HeaderSize)
           flt == scribble /\ FillFaults(regions, targ[t].ret, actual_size)
       IN  /\ aborted' = flt
           /\ mem' = IF scribble /\ ~flt
                     THEN Fill(mem, targ[t].ret, actual_size, ScribbleByte) ELSE mem
           /\ live' = IF flt THEN live ELSE (targ[t].ret :> targ[t].size) @@ live
    /\ targ' = [targ EXCEPT ![t] = NoArgs]
    /\ Goto(t, "idle")
    /\ UNCHANGED <<regions, free_head, free_tail, blist_head, blist_tail, lock,
                   scribble, dead, ndouble, last>>

(* allocator.c:380-387 *)
c_free_call(t) ==
    /\ ~aborted /\ pc[t] = "idle"
    /\ \E ptr \in DOMAIN live :
          /\ targ' = [targ EXCEPT ![t] = [NoArgs EXCEPT !.block = ptr - HeaderSize]]
          /\ live' = Without(live, ptr)
          /\ dead' = dead \cup {ptr}
    /\ Goto(t, "f_set_free")
    /\ UNCHANGED <<heapVars, lock, scribble, aborted, ndouble, last>>

(* allocator.c:70 *)
c_free_set_free(t) ==
    /\ ~aborted /\ pc[t] = "f_set_free"
    /\ mem' = set_free(mem, targ[t].block)
    /\ Goto(t, "f_test")
    /\ UNCHANGED <<regions, free_head, free_tail, blist_head, blist_tail, lock,
                   scribble, aborted, live, dead, ndouble, last, targ>>

(* allocator.c:73 *)
c_free_test(t) ==
    /\ ~aborted /\ pc[t] = "f_test"
    /\ Goto(t, IF free_head = NULL /\ free_tail = NULL THEN "f_head" ELSE "f_next")
    /\ UNCHANGED <<heapVars, lock, scribble, aborted, live, dead, ndouble, last, targ>>

(* allocator.c:74 *)
c_free_head(t) ==
    /\ ~aborted /\ pc[t] = "f_head"
    /\ free_head' = targ[t].block
    /\ Goto(t, "f_tail")
    /\ UNCHANGED <<mem, regions, free_tail, blist_head, blist_tail, lock, scribble,
                   aborted, live, dead, ndouble, last, targ>>

(* allocator.c:75 *)
c_free_tail(t) ==
    /\ ~aborted /\ pc[t] = "f_tail"
    /\ free_tail' = targ[t].block
    /\ targ' = [targ EXCEPT ![t] = NoArgs]
    /\ Goto(t, "idle")
    /\ UNCHANGED <<mem, regions, free_head, blist_head, blist_tail, lock, scribble,
                   aborted, live, dead, ndouble, last>>

(* allocator.c:77 *)
c_free_next(t) ==
    /\ ~aborted /\ pc[t] = "f_next"
    /\ mem' = Store(mem, targ[t].block, "next_free", free_head)
    /\ Goto(t, "f_prev")
    /\ UNCHANGED <<regions, free_head, free_tail, blist_head, blist_tail, lock,
                   scribble, aborted, live, dead, ndouble, last, targ>>

(* allocator.c:78; a NULL free_head here is a store through NULL *)
c_free_prev(t) ==
    /\ ~aborted /\ pc[t] = "f_prev"
    /\ aborted' = (free_head = NULL)
    /\ mem' = IF free_head = NULL THEN mem
              ELSE Store(mem, free_head, "prev_free", targ[t].block)
    /\ Goto(t, "f_sethead")
    /\ UNCHANGED <<regions, free_head, free_tail, blist_head, blist_tail, lock,
                   scribble, live, dead, ndouble, last, targ>>

(* allocator.c:79 *)
c_free_sethead(t) ==
    /\ ~aborted /\ pc[t] = "f_sethead"
    /\ free_head' = targ[t].block
    /\ targ' = [targ EXCEPT ![t] = NoArgs]
    /\ Goto(t, "idle")
    /\ UNCHANGED <<mem, regions, free_tail, blist_head, blist_tail, lock, scribble,
                   aborted, live, dead, ndouble, last>>

ConcNext ==
    \E t \in Threads :
        \/ c_malloc_call(t)
        \/ c_malloc_lock(t)
        \/ c_malloc_body(t)
        \/ c_malloc_unlock_failed(t)
        \/ c_malloc_unlock(t)
        \/ c_malloc_return(t)
        \/ c_free_call(t)
        \/ c_free_set_free(t)
        \/ c_free_test(t)
        \/ c_free_head(t)
        \/ c_free_tail(t)
        \/ c_free_next(t)
        \/ c_free_prev(t)
        \/ c_free_sethead(t)

ConcSpec == Init /\ [][ConcNext]_vars

(* Scheduling: a thread inside malloc_impl keeps executing its statements, *)
(* and a thread blocked in pthread_mutex_lock is granted the lock at some   *)
(* time if the lock is free again and again. Whether and when a thread      *)
(* makes its next call is up to the caller; free_impl never blocks.         *)
MallocStep(t) ==
    \/ c_malloc_body(t)
    \/ c_malloc_unlock_failed(t)
    \/ c_malloc_unlock(t)
    \/ c_malloc_return(t)

FairSpec ==
    /\ Init
    /\ [][ConcNext]_vars
    /\ \A t \in Threads : WF_vars(MallocStep(t)) /\ SF_vars(c_malloc_lock(t))

----------------------------------------------------------------------------
(* split_block and merge_block called directly on a hand-built region, as  *)
(* a caller of the exported functions can: three blocks P, B, S laid out    *)
(* back to back from the start of one mapped page and linked into a chain,  *)
(* the free ones also linked into the Free List in address order.           *)

InnerSizes == {160, 161, 241}
LastSizes == {65, 160, 161}
SplitSizes == {16, 80, 81, 160, 240}
StaleWords == {0, 4369}

After(F, x) ==
    IF \E y \in F : y > x
    THEN CHOOSE y \in F : y > x /\ \A z \in F : z > x => y <= z
    ELSE NULL

Before(F, x) ==
    IF \E y \in F : y < x
    THEN CHOOSE y \in F : y < x /\ \A z \in F : z < x => y >= z
    ELSE NULL

BuiltHeap(psz, bsz, ssz) ==
    LET P  == PageSize
        B  == P + real_size(psz)
        S  == B + real_size(bsz)
        sz == (P :> psz) @@ (B :> bsz) @@ (S :> ssz)
        A  == {P, B, S}
        F  == {x \in A : sz[x] % 2 = 1}
    IN  [mem |-> [x \in A |->
                    [region     |-> P,
                     size       |-> sz[x],
                     next_block |-> After(A, x),
                     prev_block |-> Before(A, x),
                     next_free  |-> IF x \in F THEN After(F, x) ELSE NULL,
                     prev_free  |-> IF x \in F THEN Before(F, x) ELSE NULL]],
         free_head  |-> After(F, NULL),
         free_tail  |-> Before(F, SizeMod),
         blist_head |-> P,
         blist_tail |-> S]

BlockInit ==
    /\ \E psz \in InnerSizes, bsz \in InnerSizes, ssz \in LastSizes :
          LET h == BuiltHeap(psz, bsz, ssz)
          IN  /\ mem = h.mem
              /\ free_head = h.free_head
              /\ free_tail = h.free_tail
              /\ blist_head = h.blist_head
              /\ blist_tail = h.blist_tail
    /\ regions = (PageSize :> PageSize)
    /\ lock = 0
    /\ scribble = FALSE
    /\ aborted = FALSE
    /\ live = <<>>
    /\ dead = {}
    /\ ndouble = 0
    /\ last = NoCall
    /\ pc = [t \in Threads |-> "idle"]
    /\ targ = [t \in Threads |-> NoArgs]

(* The heap with the bytes at address a read as a block header: an address *)
(* that holds no header lies in a payload, whose words hold w.              *)
Payload(m, a, w) ==
    IF a \in DOMAIN m THEN m
    ELSE (a :> [region |-> w, size |-> w, next_block |-> w, prev_block |-> w,
                next_free |-> w, prev_free |-> w]) @@ m

(* allocator.c:200-236: the body is a comment followed by return NULL. *)
merge_block(m, block) == [mem |-> m, ret |-> NULL]

(* One direct call of split_block. The stores through new_block hit the    *)
(* words from its size field to the end of its header; they kill the        *)
(* process when new_block points outside the mapped pages.                  *)
split_call ==
    /\ last.op = "none"
    /\ \E block \in {NULL} \cup DOMAIN mem, size \in SplitSizes, w \in StaleWords :
          LET sp0 == split_block(mem, block, size)
              flt == /\ sp0.ret # NULL
                     /\ FillFaults(regions, sp0.ret + OffSize, HeaderSize - OffSize)
              sp  == IF sp0.ret = NULL THEN sp0
                     ELSE split_block(Payload(mem, sp0.ret, w), block, size)
          IN  /\ mem' = IF flt THEN mem ELSE sp.mem
              /\ aborted' = flt
              /\ last' = [NoCall EXCEPT !.op = "split", !.a = size, !.ptr = block,
                                        !.ret = IF flt THEN NULL ELSE sp.ret]
    /\ UNCHANGED <<regions, free_head, free_tail, blist_head, blist_tail, lock,
                   scribble, live, dead, ndouble, pc, targ>>

(* One direct call of merge_block. *)
merge_call ==
    /\ last.op = "none"
    /\ \E block \in {NULL} \cup DOMAIN mem :
          LET mg == merge_block(mem, block)
          IN  /\ mem' = mg.mem
              /\ last' = [NoCall EXCEPT !.op = "merge", !.ptr = block, !.ret = mg.ret]
    /\ UNCHANGED <<regions, free_head, free_tail, blist_head, blist_tail, lock,
                   scribble, aborted, live, dead, ndouble, pc, targ>>

BlockNext ==
    \/ split_call
    \/ merge_call

BlockSpec == BlockInit /\ [][BlockNext]_vars

----------------------------------------------------------------------------
(* first_fit called on the heap that malloc_impl, free_impl and the        *)
(* caller's writes have produced.                                           *)

FitSizes == {80, 4096, 8192}

(* The loop of first_fit from the node free on, as the set of its possible *)
(* outcomes. A node pointer that is no block header is dereferenced all the *)
(* same: outside the mapped pages that kills the process, inside them the   *)
(* payload words found there are read as the node's size and next_free. A   *)
(* walk that has taken more steps than there are nodes is in a cycle that   *)
(* holds no fitting block and never leaves the loop.                        *)
RECURSIVE FitWalk(_, _, _, _, _)
FitWalk(m, regs, free, size, k) ==
    IF free = NULL THEN {[ret |-> NULL, stuck |-> FALSE]}
    ELSE IF free \notin DOMAIN m
         THEN IF FillFaults(regs, free + OffSize, WordBytes)
              THEN {[ret |-> NULL, stuck |-> TRUE]}
              ELSE UNION {FitWalk(Payload(m, free, w), regs, free, size, k) :
                              w \in StaleWords}
    ELSE IF real_size(m[free].size) >= size THEN {[ret |-> free, stuck |-> FALSE]}
    ELSE IF k = 0 THEN {[ret |-> NULL, stuck |-> TRUE]}
    ELSE FitWalk(m, regs, m[free].next_free, size, k - 1)

first_fit(m, regs, fh, size) ==
    FitWalk(m, regs, fh, size, Cardinality(DOMAIN m) + Cardinality(StaleWords) + 1)

first_fit_call ==
    /\ ~aborted
    /\ \E size \in FitSizes :
          \E o \in first_fit(mem, regions, free_head, size) :
              /\ aborted' = o.stuck
              /\ last' = [NoCall EXCEPT !.op = "first_fit", !.a = size, !.ret = o.ret]
    /\ UNCHANGED <<heapVars, lock, scribble, live, dead, ndouble, pc, targ>>

FitNext ==
    \/ malloc_impl
    \/ free_impl
    \/ write_payload
    \/ first_fit_call

FitSpec == Init /\ [][FitNext]_vars

----------------------------------------------------------------------------
(* What the statements below talk about *)

Blocks == DOMAIN mem

(* The addresses visited from a along next_free, at most k of them; the     *)
(* walk stops at NULL and at an address that holds no block.                *)
RECURSIVE FreeWalk(_, _, _)
FreeWalk(m, a, k) ==
    IF a = NULL \/ a \notin DOMAIN m \/ k = 0 THEN <<>>
    ELSE <<a>> \o FreeWalk(m, m[a].next_free, k - 1)

FreeList(m, fh) == FreeWalk(m, fh, Cardinality(DOMAIN m) + 1)

FreeNodes(m, fh) == LET w == FreeList(m, fh) IN {w[i] : i \in DOMAIN w}

(* The pointer the walk ends on: NULL for a terminated list. *)
FreeEnd(m, fh) ==
    LET w == FreeList(m, fh)
    IN  IF w = <<>> THEN fh ELSE m[w[Len(w)]].next_free

BlocksOfRegion(m, regs, r) == {b \in DOMAIN m : r <= b /\ b < r + regs[r]}

LinksUnchanged ==
    /\ free_head' = free_head
    /\ free_tail' = free_tail
    /\ \A b \in DOMAIN mem :
          /\ mem'[b].next_free = mem[b].next_free
          /\ mem'[b].prev_free = mem[b].prev_free

Disjoint(a1, e1, a2, e2) == e1 <= a2 \/ e2 <= a1

BlockEnd(m, b) == b + real_size(m[b].size)

----------------------------------------------------------------------------
(* C1: in every reachable state the blocks reachable from free_head along  *)
(* next_free are exactly the existing blocks whose free flag is set, each   *)
(* of them visited once (the walk ends on NULL and repeats no block).       *)
C1_FreeListIsFreeBlocks ==
    ~aborted =>
        LET w == FreeList(mem, free_head)
        IN  /\ FreeNodes(mem, free_head) = {b \in Blocks : is_free(mem, b)}
            /\ FreeEnd(mem, free_head) = NULL
            /\ \A i, j \in DOMAIN w : i # j => w[i] # w[j]

(* C2: a free_impl call on a pointer that was already released leaves     *)
(* free_head, free_tail and every next_free / prev_free link unchanged.     *)
C2_DoubleReleaseLeavesList ==
    [][(last'.op = "free" /\ last'.ptr \in dead) => LinksUnchanged]_vars

(* C3: a thread that is at a statement reading or writing the shared heap  *)
(* state holds the lock, and no two threads are inside the free list        *)
(* insertion of add_free at the same time.                                  *)
SharedAccess == {"m_body", "f_set_free", "f_test", "f_head", "f_tail", "f_next",
                 "f_prev", "f_sethead"}

AddFreeInsertion == {"f_test", "f_head", "f_tail", "f_next", "f_prev", "f_sethead"}

C3_SharedStateUnderLock ==
    /\ \A t \in Threads : pc[t] \in SharedAccess => lock = t
    /\ \A t1, t2 \in Threads :
          (t1 # t2 /\ pc[t1] \in AddFreeInsertion) => pc[t2] \notin AddFreeInsertion

(* C4: the byte ranges [header, header + real size) of the blocks of any   *)
(* two distinct pointers that were returned and not yet released are        *)
(* disjoint.                                                                *)
C4_LiveBlocksDisjoint ==
    ~aborted =>
        \A p, q \in DOMAIN live :
            p # q => Disjoint(p - HeaderSize, BlockEnd(mem, p - HeaderSize),
                              q - HeaderSize, BlockEnd(mem, q - HeaderSize))

(* C5: leak_check returns true exactly when some block is still marked     *)
(* used; once every returned pointer has been released it returns false.    *)
C5_LeakCheckExact ==
    last.op = "leak_check" =>
        /\ last.leak <=> (\E b \in Blocks : ~is_free(mem, b))
        /\ (Blocks # {} /\ DOMAIN live = {}) => ~last.leak

(* C6: a malloc_impl call made while the Free List holds a block whose     *)
(* real size is at least the aligned request maps no new region and         *)
(* returns the payload of a block that was on the Free List.                *)
C6_ReuseBeforeMapping ==
    [][(/\ last'.op = "malloc"
        /\ \E b \in FreeNodes(mem, free_head) :
              real_size(mem[b].size) >= align(Wrap(last'.a + HeaderSize), ALIGNMENT))
       => (/\ regions' = regions
           /\ (last'.ret - HeaderSize) \in FreeNodes(mem, free_head))]_vars

(* C7: after a free_impl call no mapped region consists solely of free     *)
(* blocks.                                                                  *)
C7_NoRegionAllFree ==
    (last.op = "free" /\ ~aborted) =>
        \A r \in DOMAIN regions :
            \E b \in BlocksOfRegion(mem, regions, r) : ~is_free(mem, b)

(* C8: realloc_impl(ptr, 0, name) with ptr non-null returns NULL, leaves    *)
(* ptr's block marked free and on the Free List, and creates no block.      *)
C8_ResizeZeroReleases ==
    [][(last'.op = "realloc" /\ last'.ptr # NULL /\ last'.a = 0 /\ ~aborted')
       => (/\ last'.ret = NULL
           /\ is_free(mem', last'.ptr - HeaderSize)
           /\ (last'.ptr - HeaderSize) \in FreeNodes(mem', free_head')
           /\ DOMAIN mem' = DOMAIN mem)]_vars

(* C9: calloc_impl with a product nmemb * size that does not fit size_t    *)
(* returns NULL, maps nothing and writes nothing.                           *)
C9_CallocOverflowFails ==
    [][(last'.op = "calloc" /\ last'.a * last'.b >= SizeMod)
       => (last'.ret = NULL /\ regions' = regions /\ mem' = mem)]_vars

(* C10: the real size of every block is a multiple of 16, and the block    *)
(* behind the pointer malloc_impl(n) returned has real size                 *)
(* align(n + header size, 16).                                              *)
C10_RealSizeAligned ==
    ~aborted =>
        /\ \A b \in Blocks : real_size(mem[b].size) % ALIGNMENT = 0
        /\ (last.op = "malloc" /\ last.ret # NULL) =>
              real_size(mem[last.ret - HeaderSize].size)
                  = align(Wrap(last.a + HeaderSize), ALIGNMENT)

(* C11: the block behind every pointer malloc_impl returned and free_impl  *)
(* has not yet been given is marked used (flag bit 0), whatever the         *)
(* parity of the requested size.                                            *)
C11_ReturnedBlockUsed ==
    ~aborted => \A p \in DOMAIN live : ~is_free(mem, p - HeaderSize)

RECURSIVE SumRealSizes(_, _)
SumRealSizes(m, S) ==
    IF S = {} THEN 0
    ELSE LET b == CHOOSE x \in S : TRUE
         IN  real_size(m[b].size) + SumRealSizes(m, S \ {b})

(* C12: when malloc_impl returns a block of a region it has just mapped,   *)
(* the region's length is the aligned request rounded up to the page size,  *)
(* the first block is used, names itself as its region and has the aligned  *)
(* request as its size, the real sizes of the region's blocks add up to the *)
(* mapped length, and a mapping longer than the aligned request holds       *)
(* exactly one more block, which is free and on the Free List.              *)
C12_FreshRegionTiled ==
    [][(last'.op = "malloc" /\ last'.ret # NULL /\ ~aborted' /\ regions' # regions)
       => LET b    == last'.ret - HeaderSize
              want == align(Wrap(last'.a + HeaderSize), ALIGNMENT)
              bs   == BlocksOfRegion(mem', regions', b)
          IN  /\ regions'[b] = PageRound(want)
              /\ mem'[b].region = b
              /\ ~is_free(mem', b)
              /\ mem'[b].size = want
              /\ SumRealSizes(mem', bs) = regions'[b]
              /\ regions'[b] > want =>
                    \E t \in bs \ {b} :
                        /\ bs = {b, t}
                        /\ is_free(mem', t)
                        /\ t \in FreeNodes(mem', free_head')]_vars

(* The addresses visited from a along next_block, at most k of them. *)
RECURSIVE ChainWalk(_, _, _)
ChainWalk(m, a, k) ==
    IF a = NULL \/ a \notin DOMAIN m \/ k = 0 THEN <<>>
    ELSE <<a>> \o ChainWalk(m, m[a].next_block, k - 1)

Chain(m, bh) == ChainWalk(m, bh, Cardinality(DOMAIN m) + 1)

(* C13: every existing block is reached from blist_head along next_block,  *)
(* blist_tail is the last block of that walk, next_block and prev_block     *)
(* agree, and the block of every returned pointer is on the chain.          *)
C13_AllBlocksOnChain ==
    ~aborted =>
        LET w == Chain(mem, blist_head)
            nodes == {w[i] : i \in DOMAIN w}
        IN  /\ nodes = Blocks
            /\ blist_tail = (IF w = <<>> THEN NULL ELSE w[Len(w)])
            /\ \A b \in Blocks :
                  mem[b].next_block # NULL =>
                      /\ mem[b].next_block \in Blocks
                      /\ mem[mem[b].next_block].prev_block = b
            /\ \A p \in DOMAIN live : (p - HeaderSize) \in nodes

(* C14: as long as no pointer has been released twice, the Free List is a  *)
(* NULL-terminated doubly linked list of free blocks: the head has no       *)
(* predecessor, the walk from free_head ends on NULL without repeating a    *)
(* block, its last block is free_tail, each node is the prev_free of its    *)
(* next_free, and every node is marked free. The bytes a caller wrote into  *)
(* a payload before releasing it must therefore not show up as links.       *)
C14_FreeListWellFormed ==
    (~aborted /\ ndouble = 0) =>
        LET w == FreeList(mem, free_head)
        IN  /\ free_head # NULL =>
                  (free_head \in Blocks /\ mem[free_head].prev_free = NULL)
            /\ FreeEnd(mem, free_head) = NULL
            /\ \A i, j \in DOMAIN w : i # j => w[i] # w[j]
            /\ free_tail = (IF w = <<>> THEN NULL ELSE w[Len(w)])
            /\ \A i \in DOMAIN w :
                  /\ is_free(mem, w[i])
                  /\ i < Len(w) => mem[w[i + 1]].prev_free = w[i]

(* C15: a split_block(block, size) call that returns a tail leaves the     *)
(* tail with real size size and block with its former real size less the    *)
(* tail's, and block's free flag as it was, for odd sizes as for even ones. *)
C15_SplitSizes ==
    [][(last'.op = "split" /\ last'.ret # NULL /\ ~aborted')
       => LET block == last'.ptr
              tail  == last'.ret
          IN  /\ real_size(mem'[tail].size) = last'.a
              /\ real_size(mem'[block].size) + real_size(mem'[tail].size)
                     = real_size(mem[block].size)
              /\ is_free(mem', block) = is_free(mem, block)]_vars

(* C16: a split_block(block, size) call for which block is NULL, used or   *)
(* without successor, or size is below 80, or block's real size is below    *)
(* size + 80, returns NULL and changes no block.                            *)
SplitAllowed(m, block, size) ==
    /\ block # NULL
    /\ is_free(m, block)
    /\ m[block].next_block # NULL
    /\ size >= MinSize
    /\ real_size(m[block].size) >= size + MinSize

C16_SplitOnlyWhenRoom ==
    [][(last'.op = "split" /\ ~SplitAllowed(mem, last'.ptr, last'.a))
       => (last'.ret = NULL /\ ~aborted' /\ mem' = mem)]_vars

(* C17: a split_block(block, size) call that returns a tail leaves the     *)
(* tail between block and block's former successor in the chain, linked     *)
(* both ways, and in block's region.                                        *)
C17_SplitLinks ==
    [][(last'.op = "split" /\ last'.ret # NULL /\ ~aborted')
       => LET block == last'.ptr
              tail  == last'.ret
              succ  == mem[block].next_block
          IN  /\ mem'[tail].next_block = succ
              /\ mem'[succ].prev_block = tail
              /\ mem'[block].next_block = tail
              /\ mem'[tail].prev_block = block
              /\ mem'[tail].region = mem'[block].region]_vars

(* C18: merge_block(b) on a free block b with a free successor of the same *)
(* region, or a free predecessor of the same region, returns the leftmost   *)
(* of the merged blocks, whose real size is the sum of the merged real      *)
(* sizes, and the absorbed blocks are off the chain and off the Free List;  *)
(* without such a neighbour it returns NULL and changes nothing.            *)
Mergeable(m, b, n) ==
    /\ n # NULL
    /\ is_free(m, b)
    /\ is_free(m, n)
    /\ m[n].region = m[b].region

C18_MergeAbsorbs ==
    [][(last'.op = "merge" /\ last'.ptr # NULL)
       => LET b  == last'.ptr
              nx == mem[b].next_block
              pv == mem[b].prev_block
              R  == Mergeable(mem, b, nx)
              L  == Mergeable(mem, b, pv)
              left  == IF L THEN pv ELSE b
              total == real_size(mem[b].size)
                         + (IF R THEN real_size(mem[nx].size) ELSE 0)
                         + (IF L THEN real_size(mem[pv].size) ELSE 0)
              gone  == (IF R THEN {nx} ELSE {}) \cup (IF L THEN {b} ELSE {})
              w     == Chain(mem', blist_head')
          IN  IF R \/ L
              THEN /\ last'.ret = left
                   /\ is_free(mem', left)
                   /\ real_size(mem'[left].size) = total
                   /\ gone \cap FreeNodes(mem', free_head') = {}
                   /\ gone \cap {w[i] : i \in DOMAIN w} = {}
              ELSE last'.ret = NULL /\ mem' = mem]_vars

(* The first block of the walk from fh along next_free whose real size is  *)
(* at least size; NULL when the walk holds none.                            *)
FirstFitting(m, fh, size) ==
    LET w    == FreeList(m, fh)
        hits == {i \in DOMAIN w : real_size(m[w[i]].size) >= size}
    IN  IF hits = {} THEN NULL
        ELSE w[CHOOSE i \in hits : \A j \in hits : i <= j]

(* C19: a first_fit(size) call returns the first block of the walk from    *)
(* free_head along next_free whose real size is at least size, NULL when    *)
(* the Free List holds no such block, and changes neither the Free List nor *)
(* any block.                                                               *)
C19_FirstFitReturnsFirst ==
    [][(last'.op = "first_fit")
       => (/\ ~aborted'
           /\ last'.ret = FirstFitting(mem, free_head, last'.a)
           /\ UNCHANGED heapVars)]_vars

(* C20: a thread owns the lock only between the pthread_mutex_lock of its  *)
(* malloc_impl call and the unlock of the path it takes, so it never        *)
(* returns owning it and never locks again while owning it; and, unless     *)
(* the process is killed, a thread waiting for the lock gets it and a       *)
(* thread that has it returns from malloc_impl.                             *)
LockHeld == {"m_body", "m_unlock", "m_unlock_failed"}

InMalloc == LockHeld \cup {"m_lock", "m_scribble"}

C20_LockReleasedOnEveryPath ==
    /\ [](\A t \in Threads : (lock = t) <=> (pc[t] \in LockHeld))
    /\ \A t \in Threads : (pc[t] = "m_lock") ~> (lock = t \/ aborted)
    /\ \A t \in Threads : (pc[t] \in InMalloc) ~> (pc[t] = "idle" \/ aborted)

(* A thread waits for the lock while the owner is on the mmap failure path. *)
C20_WaiterBehindFailure ==
    \E t1, t2 \in Threads :
        /\ t1 # t2
        /\ pc[t1] = "m_lock"
        /\ lock = t2
        /\ pc[t2] = "m_unlock_failed"

====
